---- MODULE Spec2Model ----
(***************************************************************************)
(* The infection game of src/components/GameCanvas.tsx, as host and as     *)
(* client, with the physics helpers of src/utils/gameLogic.ts.             *)
(*                                                                         *)
(* Numbers are fixed point: positions and lengths are in tenths of a map   *)
(* unit, velocities and input components in thousandths.  Date.now() is in *)
(* milliseconds, as in the code.                                           *)
(***************************************************************************)
EXTENDS Integers, Sequences, FiniteSets, TLC

\* ---------------------------------------------------------------- bounds
\* number of requestAnimationFrame iterations of the host loop explored
MaxTicks == 3
\* the wall clock is explored up to this many milliseconds
MaxNow == 180000

\* number of requestAnimationFrame iterations of the client loop explored
MaxFrames == 2

\* ------------------------------------------------------ program constants
\* MAP_WIDTH, MAP_HEIGHT 2500 and PLAYER_RADIUS 15 map units, in tenths
MAP_WIDTH == 25000
MAP_HEIGHT == 25000
PLAYER_RADIUS == 150
\* PLAYER_SPEED 4.5 map units per unit velocity = 45 tenths
PLAYER_SPEED == 45
\* ZOMBIE_SPEED_MULTIPLIER 1.0, in tenths
ZOMBIE_SPEED_MULTIPLIER == 10
COUNTDOWN_TIME == 5
GAME_DURATION == 180

\* ----------------------------------------------------------- input sets
HostId == "h"
Clients == {"c1", "c2"}
\* outcomes of findValidSpawn explored (tenths): 25 units apart, so that two
\* players are in contact when they share a point and out of contact otherwise
SpawnPoints == {<<10000, 10000>>, <<10250, 10000>>}
\* direction the host's keyboard asks for at a tick (thousandths)
LocalInputs == {<<1000, 0>>}
\* payloads of the INPUT messages explored (thousandths)
InputPayloads == {<<-1000, 0>>}
\* the obstacle list generateObstacles returned for this session
SessionObstacles == <<[x |-> 12000, y |-> 6000, width |-> 400, height |-> 3000]>>
\* amounts by which the wall clock is seen to advance (ms)
ClockSteps == {179999, 180000}
NoInput == <<>>

VARIABLES
  myId,            \* myIdRef: "" until the peer is open
  players,         \* playersRef: sequence of Player records
  obstacles,       \* obstaclesRef
  gameState,       \* gameStateRef
  count,           \* startCountdown's local count
  timerOn,         \* the setInterval of startCountdown is active
  gameStartTime,   \* gameStartTimeRef
  gameOverReason,  \* React state gameOverReason
  timeLeft,        \* React state timeLeft (HUD)
  stats,           \* React state stats
  conn,            \* connectionsRef with each DataConnection's stage
  clientInputs,    \* clientInputsRef
  sent,            \* per connection, the packets the handler that just ran gave to conn.send
  gameOverSent,    \* per connection, the reasons of all GAME_OVER packets sent to it so far
  now,             \* Date.now()
  ticks,           \* number of loop iterations so far
  infectedAt,      \* tick in which the only Evader of a two-Player session was infected
  received,        \* per connection, the payload of the last INPUT packet that arrived on it
  malformed,       \* the step just taken was the data handler run on a malformed packet
  threw,           \* the handler that just ran raised a TypeError
  \* a GameCanvas mounted with isHost = false
  clConn,          \* hostConnRef: "none", "open" or "closed"
  clPlayers,       \* playersRef of the client
  clObstacles,     \* obstaclesRef of the client
  clGameState,     \* gameStateRef of the client
  clTimeLeft,      \* React state timeLeft of the client
  clStats,         \* React state stats of the client
  clReason,        \* React state gameOverReason of the client
  clRecv,          \* the packet the client's data handler just handled, if any
  clSent,          \* the packets the client's step just gave to hostConn.send
  clFrames,        \* number of loop iterations of the client so far
  \* one call of resolveCollision
  rcPlayer,        \* the Player passed to resolveCollision, mutated in place
  rcObstacles,     \* the obstacle list passed
  rcApplied,       \* the call has returned
  \* one call of generateObstacles
  genObstacles,    \* the local list obstacles
  genWalls,        \* iterations of the wall loop done
  genDebris,       \* iterations of the debris loop done
  \* one call of findValidSpawn
  fsX,             \* the local x
  fsY,             \* the local y
  fsValid,         \* the local valid
  fsAttempts,      \* the local attempts
  fsResult,        \* the point returned, once the call has returned
  fsPassed,        \* a sampled point that qualified was replaced by a later sample
  \* the roam branch of one call of updateBot
  roamBot,         \* the bot: x, y and target
  roamHeld,        \* bot.target when updateBot was called
  roamTries,       \* the local tries
  roamValid,       \* the local valid
  roamStage,       \* "start", "sampling", "done" or "threw"
  roamIntent,      \* (targetX, targetY) after the branch
  \* the wall sliding step of one call of updateBot
  wsBot,           \* the bot's position
  wsObstacles,     \* the obstacle list passed
  wsDesired,       \* (targetX, targetY) before the step
  wsTarget,        \* (targetX, targetY) after the step
  wsApplied        \* the step has run

hostVars == <<myId, players, obstacles, gameState, count, timerOn, gameStartTime,
              gameOverReason, timeLeft, stats, conn, clientInputs, sent, gameOverSent,
              now, ticks, infectedAt, received, malformed, threw>>
clientVars == <<clConn, clPlayers, clObstacles, clGameState, clTimeLeft, clStats,
                clReason, clRecv, clSent, clFrames>>
rcVars == <<rcPlayer, rcObstacles, rcApplied>>
genVars == <<genObstacles, genWalls, genDebris>>
fsVars == <<fsX, fsY, fsValid, fsAttempts, fsResult, fsPassed>>
roamVars == <<roamBot, roamHeld, roamTries, roamValid, roamStage, roamIntent>>
wsVars == <<wsBot, wsObstacles, wsDesired, wsTarget, wsApplied>>
physVars == <<rcVars, genVars, fsVars, roamVars, wsVars>>
vars == <<hostVars, clientVars, physVars>>

\* ------------------------------------------------------------ arithmetic
Abs(a) == IF a < 0 THEN -a ELSE a
Max(a, b) == IF a > b THEN a ELSE b
Min(a, b) == IF a < b THEN a ELSE b
\* division rounding toward zero
Div(a, b) == IF a >= 0 THEN a \div b ELSE -((-a) \div b)

RECURSIVE SqrtBetween(_, _, _)
\* the r in lo..hi with r*r <= n < (r+1)*(r+1), by bisection
SqrtBetween(n, lo, hi) ==
  IF lo >= hi THEN lo
  ELSE LET mid == (lo + hi + 1) \div 2
       IN IF mid * mid <= n THEN SqrtBetween(n, mid, hi) ELSE SqrtBetween(n, lo, mid - 1)
\* Math.sqrt, rounded down
ISqrt(n) == SqrtBetween(n, 0, 40000)

clamp(value, min, max) == Min(Max(value, min), max)

\* lerp(start, end, t) with t in tenths
lerp(start, end, t) == start + Div((end - start) * t, 10)

\* squared distance; getDistance is its square root
DistSq(p1, p2) == (p1.x - p2.x) * (p1.x - p2.x) + (p1.y - p2.y) * (p1.y - p2.y)
getDistance(p1, p2) == ISqrt(DistSq(p1, p2))


\* ---------------------------------------------------------------- physics
\* one iteration of resolveCollision's loop: push the circle out of obs
PushOut(p, obs) ==
  IF \/ p.x + p.radius < obs.x
     \/ p.x - p.radius > obs.x + obs.width
     \/ p.y + p.radius < obs.y
     \/ p.y - p.radius > obs.y + obs.height
  THEN p
  ELSE LET closestX == clamp(p.x, obs.x, obs.x + obs.width)
           closestY == clamp(p.y, obs.y, obs.y + obs.height)
           dx == p.x - closestX
           dy == p.y - closestY
           distanceSquared == dx * dx + dy * dy
       IN IF distanceSquared < p.radius * p.radius /\ distanceSquared > 0
          THEN LET distance == ISqrt(distanceSquared)
                   overlap == p.radius - distance
               IN [p EXCEPT !.x = p.x + Div(dx * overlap, distance),
                            !.y = p.y + Div(dy * overlap, distance)]
          ELSE p

RECURSIVE PushOutFrom(_, _, _)
PushOutFrom(p, obs, i) ==
  IF i > Len(obs) THEN p ELSE PushOutFrom(PushOut(p, obs[i]), obs, i + 1)

resolveCollision(player, obs) ==
  PushOutFrom([player EXCEPT
                 !.x = clamp(player.x, player.radius, MAP_WIDTH - player.radius),
                 !.y = clamp(player.y, player.radius, MAP_HEIGHT - player.radius)],
              obs, 1)

\* the body of updateHost's players.forEach for one player and its input
MovePlayer(p, inp, obs) ==
  LET vx == lerp(p.dx, inp[1], 2)
      vy == lerp(p.dy, inp[2], 2)
      speed == IF p.role = "ZOMBIE"
               THEN (PLAYER_SPEED * ZOMBIE_SPEED_MULTIPLIER) \div 10
               ELSE PLAYER_SPEED
      sx == IF Abs(vx) < 10 THEN 0 ELSE vx
      sy == IF Abs(vy) < 10 THEN 0 ELSE vy
  IN resolveCollision([p EXCEPT !.dx = sx, !.dy = sy,
                                !.x = p.x + Div(sx * speed, 1000),
                                !.y = p.y + Div(sy * speed, 1000)], obs)

\* the input updateHost uses for player p: the keyboard for the host's own
\* player, the buffered INPUT of its connection otherwise, (0,0) if none
InputFor(p, localInput) ==
  IF p.id = myId THEN localInput
  ELSE IF p.id \in Clients /\ clientInputs[p.id] # NoInput THEN clientInputs[p.id]
  ELSE <<0, 0>>

\* ---------------------------------------------------------------- players
\* faulty variant: the new Player gets the id of the host's own peer
createPlayer_OwnId(id, spawn) ==
  [id |-> myId, x |-> spawn[1], y |-> spawn[2], radius |-> PLAYER_RADIUS,
   role |-> "SURVIVOR", dx |-> 0, dy |-> 0]

\* faulty variant: a Player created while a match is running starts as Pursuer
createPlayer_LateZombie(id, spawn) ==
  [id |-> id, x |-> spawn[1], y |-> spawn[2], radius |-> PLAYER_RADIUS,
   role |-> IF gameState = "PLAYING" THEN "ZOMBIE" ELSE "SURVIVOR", dx |-> 0, dy |-> 0]

createPlayer(id, spawn) ==
  [id |-> id, x |-> spawn[1], y |-> spawn[2], radius |-> PLAYER_RADIUS,
   role |-> "SURVIVOR", dx |-> 0, dy |-> 0]

\* faulty variant: the host's own Player is not counted
Survivors_Remote(ps) == {i \in 1..Len(ps) : ps[i].role = "SURVIVOR" /\ ps[i].id # myId}

Survivors(ps) == {i \in 1..Len(ps) : ps[i].role = "SURVIVOR"}
Zombies(ps) == {i \in 1..Len(ps) : ps[i].role = "ZOMBIE"}

\* faulty variant: tag rules, the zombie that catches a survivor turns survivor
Infect_Swap(ps) ==
  [i \in 1..Len(ps) |->
     IF /\ ps[i].role = "SURVIVOR"
        /\ \E z \in Zombies(ps) :
              getDistance(ps[i], ps[z]) < Div((ps[i].radius + ps[z].radius) * 8, 10)
     THEN [ps[i] EXCEPT !.role = "ZOMBIE"]
     ELSE IF /\ ps[i].role = "ZOMBIE"
             /\ \E v \in Survivors(ps) :
                   getDistance(ps[i], ps[v]) < Div((ps[i].radius + ps[v].radius) * 8, 10)
     THEN [ps[i] EXCEPT !.role = "SURVIVOR"]
     ELSE ps[i]]

\* faulty variant: contact at the full sum of the radii instead of 0.8 of it
Infect_FullRadius(ps) ==
  [i \in 1..Len(ps) |->
     IF /\ ps[i].role = "SURVIVOR"
        /\ \E z \in Zombies(ps) :
              getDistance(ps[i], ps[z]) < ps[i].radius + ps[z].radius
     THEN [ps[i] EXCEPT !.role = "ZOMBIE"]
     ELSE ps[i]]

\* the infection loop of updateHost: zombiePlayers is fixed before the loop, so
\* a survivor turns when it touches a player that was a zombie before the loop
Infect(ps) ==
  [i \in 1..Len(ps) |->
     IF /\ ps[i].role = "SURVIVOR"
        /\ \E z \in Zombies(ps) :
              getDistance(ps[i], ps[z]) < Div((ps[i].radius + ps[z].radius) * 8, 10)
     THEN [ps[i] EXCEPT !.role = "ZOMBIE"]
     ELSE ps[i]]

\* faulty variant: the solo guard asks for more than two players
AllInfected_Three(survivors, ps) == survivors = 0 /\ Len(ps) > 2

\* faulty variant: no solo guard
AllInfected_NoSoloGuard(survivors, ps) == survivors = 0

\* the test that ends the match after the infection loop; survivors is the
\* count the loop made, each player counted before it is examined
AllInfected(survivors, ps) == survivors = 0 /\ Len(ps) > 1

\* faulty variant: Math.round instead of Math.floor
TimeLeftAt_Round(t) ==
  LET elapsed == (t - gameStartTime + 500) \div 1000
  IN Max(0, GAME_DURATION - elapsed)

\* remaining seconds as updateHost computes them from Date.now() = t
TimeLeftAt(t) ==
  LET elapsed == (t - gameStartTime) \div 1000
  IN Max(0, GAME_DURATION - elapsed)

\* faulty variant: the timer block does not look at the phase
TimeUp_AnyPhase(gs, left) == left <= 0

\* faulty variant: left < 0 instead of left <= 0, which Math.max(0, ...) never
\* lets happen
TimeUp_Strict(gs, left) == gs = "PLAYING" /\ left < 0

\* the timer block of updateHost ends the match
TimeUp(gs, left) == gs = "PLAYING" /\ left <= 0

\* faulty variant: the phase is read once, before the timer block
InfectionRuns_AtStart(gsAtStart, gsNow) == gsAtStart = "PLAYING"

\* the guard of the infection block; gsAtStart is gameStateRef when updateHost
\* was entered, gsNow its value after the timer block
InfectionRuns(gsAtStart, gsNow) == gsNow = "PLAYING"

\* faulty variant: every JOIN with two or more players restarts the countdown
AutoStart_NoPhaseCheck(gs, ps) == Len(ps) >= 2

\* faulty variant: the countdown waits for a third player
AutoStart_Three(gs, ps) == gs = "LOBBY" /\ Len(ps) >= 3

\* the JOIN handler starts the countdown
AutoStart(gs, ps) == gs = "LOBBY" /\ Len(ps) >= 2

\* conn.open of the DataConnection stored for c
IsOpen(c) == conn[c] \in {"open", "joined"}

\* faulty variant: a registered connection that is not open yet makes the
\* forEach give up, so nobody gets the packets
Broadcast_AllOrNothing(msgs) ==
  [c \in Clients |->
     IF IsOpen(c) /\ \A d \in Clients : conn[d] # "pending" THEN msgs ELSE <<>>]

\* broadcast / sendToClient: the packets are appended for every open connection
Broadcast(msgs) == [c \in Clients |-> IF IsOpen(c) THEN msgs ELSE <<>>]
NoSends == [c \in Clients |-> <<>>]

\* faulty variant: the STATE carries the phase the tick started in, not the one
\* endGame has just set
StateMsg_PhaseAtStart(ps, gs) ==
  [type |-> "STATE", players |-> ps, timeLeft |-> GAME_DURATION, gameState |-> gameState,
   obstacles |-> <<>>]
StateMsg(ps, gs) ==
  [type |-> "STATE", players |-> ps, timeLeft |-> GAME_DURATION, gameState |-> gs,
   obstacles |-> <<>>]
GameOverMsg(reason) == [type |-> "GAME_OVER", reason |-> reason]
\* faulty variant: the payload is built before the JOIN handler starts the
\* countdown, so it carries the phase the host had before the JOIN
WelcomeMsg_PhaseBefore(ps, gs) ==
  [type |-> "WELCOME", players |-> ps, obstacles |-> obstacles, gameState |-> gameState,
   timeLeft |-> GAME_DURATION]
WelcomeMsg(ps, gs) ==
  [type |-> "WELCOME", players |-> ps, obstacles |-> obstacles, gameState |-> gs,
   timeLeft |-> GAME_DURATION]

\* the render condition of the FORCE START button (its onClick is startCountdown)
ForceStartAvailable == gameState = "LOBBY" /\ myId # "" /\ Len(players) > 1

\* ------------------------------------------------------------------ state
InitHost ==
  /\ myId = ""
  /\ players = <<>>
  /\ obstacles = SessionObstacles
  /\ gameState = "LOBBY"
  /\ count = 0
  /\ timerOn = FALSE
  /\ gameStartTime = 0
  /\ gameOverReason = "INFECTED"
  /\ timeLeft = GAME_DURATION
  /\ stats = [survivors |-> 0, zombies |-> 0]
  /\ conn = [c \in Clients |-> "none"]
  /\ clientInputs = [c \in Clients |-> NoInput]
  /\ sent = NoSends
  /\ gameOverSent = [c \in Clients |-> <<>>]
  /\ now = 0
  /\ ticks = 0
  /\ infectedAt = 0
  /\ received = [c \in Clients |-> NoInput]
  /\ malformed = FALSE
  /\ threw = FALSE

\* the refs and React state of a client after its first render
InitClient ==
  /\ clConn = "none"
  /\ clPlayers = <<>>
  /\ clObstacles = <<>>
  /\ clGameState = "LOBBY"
  /\ clTimeLeft = GAME_DURATION
  /\ clStats = [survivors |-> 0, zombies |-> 0]
  /\ clReason = "INFECTED"
  /\ clRecv = <<>>
  /\ clSent = <<>>
  /\ clFrames = 0

\* no call of resolveCollision is followed on its own
InitRc ==
  /\ rcPlayer = createPlayer(HostId, <<10000, 10000>>)
  /\ rcObstacles = <<>>
  /\ rcApplied = FALSE

\* generateObstacles starts with an empty list
InitGen ==
  /\ genObstacles = <<>>
  /\ genWalls = 0
  /\ genDebris = 0

\* findValidSpawn starts with x = 0, y = 0, valid = false, attempts = 0
InitFs ==
  /\ fsX = 0
  /\ fsY = 0
  /\ fsValid = FALSE
  /\ fsAttempts = 0
  /\ fsResult = <<>>
  /\ fsPassed = FALSE

\* no call of updateBot is followed
InitRoam ==
  /\ roamBot = [x |-> 10000, y |-> 10000, target |-> <<>>]
  /\ roamHeld = <<>>
  /\ roamTries = 0
  /\ roamValid = FALSE
  /\ roamStage = "start"
  /\ roamIntent = <<0, 0>>

InitWs ==
  /\ wsBot = [x |-> 10000, y |-> 10000]
  /\ wsObstacles = <<>>
  /\ wsDesired = <<0, 0>>
  /\ wsTarget = <<0, 0>>
  /\ wsApplied = FALSE

InitPhys == InitRc /\ InitGen /\ InitFs /\ InitRoam /\ InitWs

Init == InitHost /\ InitClient /\ InitPhys

\* peer.on('open') on the host
HostOpen ==
  /\ myId = ""
  /\ myId' = HostId
  /\ \E spawn \in SpawnPoints : players' = <<createPlayer(HostId, spawn)>>
  /\ gameState' = "LOBBY"
  /\ sent' = NoSends
  /\ UNCHANGED <<obstacles, count, timerOn, gameStartTime, gameOverReason, timeLeft,
                 stats, conn, clientInputs, now, ticks, infectedAt, gameOverSent>>
  /\ UNCHANGED received
  /\ malformed' = FALSE /\ threw' = FALSE
  /\ UNCHANGED <<clientVars, physVars>>

\* peer.on('connection'): handleIncomingConnection registers the connection
Connect(c) ==
  /\ myId # ""
  /\ conn[c] = "none"
  /\ conn' = [conn EXCEPT ![c] = "pending"]
  /\ sent' = NoSends
  /\ UNCHANGED <<myId, players, obstacles, gameState, count, timerOn, gameStartTime,
                 gameOverReason, timeLeft, stats, clientInputs, now, ticks, infectedAt,
                 gameOverSent>>
  /\ UNCHANGED received
  /\ malformed' = FALSE /\ threw' = FALSE
  /\ UNCHANGED <<clientVars, physVars>>

\* the data channel opens; the client's 'open' handler sends its JOIN
ConnOpen(c) ==
  /\ conn[c] = "pending"
  /\ conn' = [conn EXCEPT ![c] = "open"]
  /\ sent' = NoSends
  /\ UNCHANGED <<myId, players, obstacles, gameState, count, timerOn, gameStartTime,
                 gameOverReason, timeLeft, stats, clientInputs, now, ticks, infectedAt,
                 gameOverSent>>
  /\ UNCHANGED received
  /\ malformed' = FALSE /\ threw' = FALSE
  /\ UNCHANGED <<clientVars, physVars>>

\* conn.on('data') with a JOIN packet
RecvJoin(c) ==
  /\ conn[c] = "open"
  /\ conn' = [conn EXCEPT ![c] = "joined"]
  /\ \E spawn \in SpawnPoints :
       LET ps == Append(players, createPlayer(c, spawn))
           start == AutoStart(gameState, ps)
           gs == IF start THEN "COUNTDOWN" ELSE gameState
       IN /\ players' = ps
          /\ gameState' = gs
          /\ count' = IF start THEN COUNTDOWN_TIME ELSE count
          /\ timerOn' = IF start THEN TRUE ELSE timerOn
          /\ sent' = [NoSends EXCEPT ![c] = <<WelcomeMsg(ps, gs)>>]
  /\ UNCHANGED <<myId, obstacles, gameStartTime, gameOverReason, timeLeft, stats,
                 clientInputs, gameOverSent, now, ticks, infectedAt>>
  /\ UNCHANGED received
  /\ malformed' = FALSE /\ threw' = FALSE
  /\ UNCHANGED <<clientVars, physVars>>

\* faulty variant: an INPUT is stored only while nothing is buffered, so the
\* older one stays in front of the newer one
RecvInput_KeepFirst(c, payload) ==
  /\ conn[c] = "joined"
  /\ clientInputs' = [clientInputs EXCEPT
                        ![c] = IF clientInputs[c] = NoInput THEN payload ELSE @]
  /\ sent' = NoSends
  /\ UNCHANGED <<myId, players, obstacles, gameState, count, timerOn, gameStartTime,
                 gameOverReason, timeLeft, stats, conn, now, ticks, infectedAt,
                 gameOverSent>>
  /\ received' = [received EXCEPT ![c] = payload]
  /\ malformed' = FALSE /\ threw' = FALSE
  /\ UNCHANGED <<clientVars, physVars>>

\* conn.on('data') with an INPUT packet
RecvInput(c, payload) ==
  /\ conn[c] = "joined"
  /\ clientInputs' = [clientInputs EXCEPT ![c] = payload]
  /\ sent' = NoSends
  /\ UNCHANGED <<myId, players, obstacles, gameState, count, timerOn, gameStartTime,
                 gameOverReason, timeLeft, stats, conn, now, ticks, infectedAt,
                 gameOverSent>>
  /\ received' = [received EXCEPT ![c] = payload]
  /\ malformed' = FALSE /\ threw' = FALSE
  /\ UNCHANGED <<clientVars, physVars>>

\* faulty variant: the close handler forgets the buffered input
Close_KeepInput(c) ==
  /\ conn[c] \in {"pending", "open", "joined"}
  /\ conn' = [conn EXCEPT ![c] = "closed"]
  /\ players' = SelectSeq(players, LAMBDA p : p.id # c)
  /\ sent' = NoSends
  /\ UNCHANGED <<myId, obstacles, gameState, count, timerOn, gameStartTime,
                 gameOverReason, timeLeft, stats, now, ticks, infectedAt, gameOverSent,
                 clientInputs>>
  /\ received' = [received EXCEPT ![c] = NoInput]
  /\ malformed' = FALSE /\ threw' = FALSE
  /\ UNCHANGED <<clientVars, physVars>>

\* faulty variant: a close that leaves fewer than two Players during the
\* countdown cancels it
Close_CancelCountdown(c) ==
  /\ conn[c] \in {"pending", "open", "joined"}
  /\ conn' = [conn EXCEPT ![c] = "closed"]
  /\ clientInputs' = [clientInputs EXCEPT ![c] = NoInput]
  /\ players' = SelectSeq(players, LAMBDA p : p.id # c)
  /\ IF gameState = "COUNTDOWN" /\ Len(SelectSeq(players, LAMBDA p : p.id # c)) < 2
     THEN gameState' = "LOBBY" /\ timerOn' = FALSE /\ count' = 0
     ELSE UNCHANGED <<gameState, timerOn, count>>
  /\ sent' = NoSends
  /\ UNCHANGED <<myId, obstacles, gameStartTime, gameOverReason, timeLeft, stats, now,
                 ticks, infectedAt, gameOverSent>>
  /\ received' = [received EXCEPT ![c] = NoInput]
  /\ malformed' = FALSE /\ threw' = FALSE
  /\ UNCHANGED <<clientVars, physVars>>

\* faulty variant: the close handler leaves the Player in the list
Close_KeepPlayer(c) ==
  /\ conn[c] \in {"pending", "open", "joined"}
  /\ conn' = [conn EXCEPT ![c] = "closed"]
  /\ clientInputs' = [clientInputs EXCEPT ![c] = NoInput]
  /\ sent' = NoSends
  /\ UNCHANGED <<myId, players, obstacles, gameState, count, timerOn, gameStartTime,
                 gameOverReason, timeLeft, stats, now, ticks, infectedAt, gameOverSent>>
  /\ received' = [received EXCEPT ![c] = NoInput]
  /\ malformed' = FALSE /\ threw' = FALSE
  /\ UNCHANGED <<clientVars, physVars>>

\* conn.on('close')
Close(c) ==
  /\ conn[c] \in {"pending", "open", "joined"}
  /\ conn' = [conn EXCEPT ![c] = "closed"]
  /\ clientInputs' = [clientInputs EXCEPT ![c] = NoInput]
  /\ players' = SelectSeq(players, LAMBDA p : p.id # c)
  /\ sent' = NoSends
  /\ UNCHANGED <<myId, obstacles, gameState, count, timerOn, gameStartTime,
                 gameOverReason, timeLeft, stats, now, ticks, infectedAt, gameOverSent>>
  /\ received' = [received EXCEPT ![c] = NoInput]
  /\ malformed' = FALSE /\ threw' = FALSE
  /\ UNCHANGED <<clientVars, physVars>>

\* faulty variant: no zombie is picked in a solo session
startGame_SkipSolo(ps, zombieIdx) ==
  IF Len(ps) > 1 THEN [ps EXCEPT ![zombieIdx].role = "ZOMBIE"] ELSE ps

\* startGame: the zombie is players[zombieIdx]
startGame(ps, zombieIdx) ==
  IF Len(ps) > 0 THEN [ps EXCEPT ![zombieIdx].role = "ZOMBIE"] ELSE ps

\* one firing of startCountdown's interval timer
CountdownFire ==
  /\ timerOn
  /\ count' = count - 1
  /\ IF count - 1 <= 0
     THEN /\ timerOn' = FALSE
          /\ gameState' = "PLAYING"
          /\ gameStartTime' = now
          /\ \E zombieIdx \in 1..Max(1, Len(players)) :
               players' = startGame(players, zombieIdx)
     ELSE UNCHANGED <<timerOn, gameState, gameStartTime, players>>
  /\ sent' = NoSends
  /\ UNCHANGED <<myId, obstacles, gameOverReason, timeLeft, stats, conn, clientInputs,
                 now, ticks, infectedAt, gameOverSent>>
  /\ UNCHANGED received
  /\ malformed' = FALSE /\ threw' = FALSE
  /\ UNCHANGED <<clientVars, physVars>>

\* the wall clock moves on
AdvanceClock(d) ==
  /\ now + d <= MaxNow
  /\ now' = now + d
  /\ sent' = NoSends
  /\ UNCHANGED <<myId, players, obstacles, gameState, count, timerOn, gameStartTime,
                 gameOverReason, timeLeft, stats, conn, clientInputs, ticks,
                 infectedAt, gameOverSent>>
  /\ UNCHANGED received
  /\ malformed' = FALSE /\ threw' = FALSE
  /\ UNCHANGED <<clientVars, physVars>>

\* updateHost; tick is the number of this loop iteration.  endGame is applied
\* where the code calls it, first by the timer block and then by the infection
\* block.
updateHost(localInput, tick) ==
  /\ IF gameState = "GAME_OVER"
     THEN /\ sent' = NoSends
          /\ UNCHANGED <<players, gameState, gameOverReason, timeLeft, stats,
                         gameOverSent, infectedAt>>
     ELSE
       \E moved \in {[i \in 1..Len(players) |->
                         MovePlayer(players[i], InputFor(players[i], localInput),
                                    obstacles)]} :
       LET left == TimeLeftAt(now)
           timeUp == TimeUp(gameState, left)
           gs1 == IF timeUp THEN "GAME_OVER" ELSE gameState
           infecting == InfectionRuns(gameState, gs1)
           survivors == Cardinality(Survivors(moved))
           zombies == Cardinality(Zombies(moved))
           after == IF infecting THEN Infect(moved) ELSE moved
           infected == infecting /\ AllInfected(survivors, moved)
           gs2 == IF infected THEN "GAME_OVER" ELSE gs1
           reasons == (IF timeUp THEN <<"TIME_UP">> ELSE <<>>)
                        \o (IF infected THEN <<"INFECTED">> ELSE <<>>)
           overMsgs == [k \in 1..Len(reasons) |-> GameOverMsg(reasons[k])]
       IN /\ players' = after
          /\ gameState' = gs2
          /\ timeLeft' = IF gameState = "PLAYING" THEN left ELSE timeLeft
          /\ gameOverReason' = IF reasons = <<>> THEN gameOverReason
                               ELSE reasons[Len(reasons)]
          /\ stats' = IF infecting THEN [survivors |-> survivors, zombies |-> zombies]
                      ELSE stats
          /\ sent' = Broadcast(overMsgs \o <<StateMsg(after, gs2)>>)
          /\ gameOverSent' =
               [c \in Clients |->
                  IF IsOpen(c) THEN gameOverSent[c] \o reasons ELSE gameOverSent[c]]
          /\ infectedAt' = IF /\ infecting
                              /\ Len(moved) = 2
                              /\ survivors = 1
                              /\ Survivors(after) = {}
                           THEN tick ELSE infectedAt
  /\ UNCHANGED <<myId, obstacles, count, timerOn, gameStartTime, conn, clientInputs, now>>
  /\ UNCHANGED received
  /\ malformed' = FALSE /\ threw' = FALSE
  /\ UNCHANGED <<clientVars, physVars>>

\* one iteration of loop on the host
Tick(localInput) ==
  /\ ticks < MaxTicks
  /\ ticks' = ticks + 1
  /\ updateHost(localInput, ticks + 1)

\* a click on FORCE START: startCountdown.  The button is never rendered in a
\* reachable state (C5_LobbyLeft), so the click is no step of Next.
ForceStart ==
  /\ ForceStartAvailable
  /\ gameState' = "COUNTDOWN"
  /\ count' = COUNTDOWN_TIME
  /\ timerOn' = TRUE
  /\ sent' = NoSends
  /\ UNCHANGED <<myId, players, obstacles, gameStartTime, gameOverReason, timeLeft,
                 stats, conn, clientInputs, gameOverSent, now, ticks, infectedAt>>
  /\ UNCHANGED received
  /\ malformed' = FALSE /\ threw' = FALSE
  /\ UNCHANGED <<clientVars, physVars>>

Next ==
  \/ HostOpen
  \/ \E c \in Clients : Connect(c)
  \/ \E c \in Clients : ConnOpen(c)
  \/ \E c \in Clients : RecvJoin(c)
  \/ \E c \in Clients, payload \in InputPayloads : RecvInput(c, payload)
  \/ \E c \in Clients : Close(c)
  \/ CountdownFire
  \/ \E d \in ClockSteps : AdvanceClock(d)
  \/ \E localInput \in LocalInputs : Tick(localInput)

Spec == Init /\ [][Next]_vars

\* ------------------------------------------- one client, changing inputs
\* the payloads of the INPUT packets of a client that changes direction
InputPayloads2 == {<<-1000, 0>>, <<0, 1000>>}
\* the one client of this session
InputClients == {"c1"}

\* the host with one client whose INPUT packets differ; the clock stands still
NextInput ==
  \/ HostOpen
  \/ \E c \in InputClients : Connect(c)
  \/ \E c \in InputClients : ConnOpen(c)
  \/ \E c \in InputClients : RecvJoin(c)
  \/ \E c \in InputClients, payload \in InputPayloads2 : RecvInput(c, payload)
  \/ \E c \in InputClients : Close(c)
  \/ CountdownFire
  \/ \E localInput \in LocalInputs : Tick(localInput)

SpecInput == Init /\ [][NextInput]_vars

\* ------------------------------------------- the host that keeps running
\* nobody asks for a direction: the Players stay where they spawned
IdleInput == <<0, 0>>

\* one iteration of loop on the host, whatever their number so far: the
\* counter stays at MaxTicks once it is there
TickOn(localInput) ==
  /\ ticks' = Min(ticks + 1, MaxTicks)
  /\ updateHost(localInput, Min(ticks + 1, MaxTicks))

\* the wall clock moves on; it is followed beyond MaxNow while a match is
\* running whose time is not up yet
ClockOn(d) ==
  /\ \/ now + d <= MaxNow
     \/ gameState = "PLAYING" /\ now - gameStartTime < GAME_DURATION * 1000
  /\ now' = now + d
  /\ sent' = NoSends
  /\ UNCHANGED <<myId, players, obstacles, gameState, count, timerOn, gameStartTime,
                 gameOverReason, timeLeft, stats, conn, clientInputs, ticks,
                 infectedAt, gameOverSent>>
  /\ UNCHANGED received
  /\ malformed' = FALSE /\ threw' = FALSE
  /\ UNCHANGED <<clientVars, physVars>>

\* the peers that come and go while the host keeps running
LiveClients == {"c1"}

NextLive ==
  \/ HostOpen
  \/ \E c \in LiveClients : Connect(c)
  \/ \E c \in LiveClients : ConnOpen(c)
  \/ \E c \in LiveClients : RecvJoin(c)
  \/ \E c \in LiveClients : RecvInput(c, IdleInput)
  \/ \E c \in LiveClients : Close(c)
  \/ CountdownFire
  \/ \E d \in ClockSteps : ClockOn(d)
  \/ TickOn(IdleInput)

\* loop asks requestAnimationFrame for its next iteration at the end of every
\* iteration, and Date.now() keeps growing
SpecLive ==
  /\ Init
  /\ [][NextLive]_vars
  /\ WF_vars(TickOn(IdleInput))
  /\ WF_vars(\E d \in ClockSteps : ClockOn(d))

\* ------------------------------------------------ resolveCollision alone
\* obstacles generateObstacles can return (x and y are drawn from 0 up to the
\* map size less the obstacle's size), in tenths: a vertical wall 2 units from
\* the left border, a second one 20 units to the right of it, a horizontal wall
\* 2 units from the lower border and a piece of debris in the upper left corner
BorderWall == [x |-> 200, y |-> 10000, width |-> 400, height |-> 3000]
NearWall == [x |-> 800, y |-> 10000, width |-> 400, height |-> 3000]
LowerWall == [x |-> 10000, y |-> 24400, width |-> 3000, height |-> 400]
CornerDebris == [x |-> 0, y |-> 0, width |-> 500, height |-> 500]
CollisionObstacleLists ==
  {<<>>, SessionObstacles, <<BorderWall>>, <<LowerWall>>, <<CornerDebris>>,
   <<CornerDebris, BorderWall>>, <<BorderWall, NearWall>>}
\* coordinates at which updateHost hands a Player over (tenths): on a border
\* (15 units from the edge), one step of 4.5 units beyond it or inside it, and
\* next to the obstacles above
CollisionXs == {105, 150, 195, 400, 650, 700, 9900, 11500, 24850, 24895}
CollisionYs == {105, 150, 650, 9900, 11500, 13100, 24350, 24850, 24895}

InitCollision ==
  /\ InitHost
  /\ InitClient
  /\ \E x \in CollisionXs, y \in CollisionYs : rcPlayer = createPlayer(HostId, <<x, y>>)
  /\ rcObstacles \in CollisionObstacleLists
  /\ rcApplied = FALSE
  /\ InitGen /\ InitFs /\ InitRoam /\ InitWs

\* the call resolveCollision(p, obstacles) of updateHost
ApplyResolveCollision ==
  /\ ~rcApplied
  /\ rcPlayer' = resolveCollision(rcPlayer, rcObstacles)
  /\ rcApplied' = TRUE
  /\ UNCHANGED rcObstacles
  /\ UNCHANGED <<hostVars, clientVars, genVars, fsVars, roamVars, wsVars>>

NextCollision == ApplyResolveCollision

SpecCollision == InitCollision /\ [][NextCollision]_vars

\* ----------------------------------------------- generateObstacles alone
\* generateObstacles runs its wall loop 50 times and then its debris loop 80
\* times; this many iterations of each are followed
MaxWalls == 1
MaxDebris == 1
\* safeZoneRadius 250 and thickness 40 map units, in tenths
safeZoneRadius == 2500
thickness == 400
\* outcomes of Math.random() followed, in thousandths
Randoms == {500, 700, 999}

\* Math.random() * range for the outcome r
Scaled(r, range) == (r * range) \div 1000

\* the wall of one iteration, from the four outcomes of Math.random()
Wall(rh, rl, rx, ry) ==
  LET isHorizontal == rh > 500
      length == Scaled(rl, 4000) + 1000
      width == IF isHorizontal THEN length ELSE thickness
      height == IF isHorizontal THEN thickness ELSE length
  IN [x |-> Scaled(rx, MAP_WIDTH - width), y |-> Scaled(ry, MAP_HEIGHT - height),
      width |-> width, height |-> height]

\* the piece of debris of one iteration
Debris(rs, rx, ry) ==
  LET size == Scaled(rs, 500) + 300
  IN [x |-> Scaled(rx, MAP_WIDTH - size), y |-> Scaled(ry, MAP_HEIGHT - size),
      width |-> size, height |-> size]

\* centerDist, the distance of the obstacle's centre from the map's centre
centerDist(o) ==
  getDistance([x |-> o.x + o.width \div 2, y |-> o.y + o.height \div 2],
              [x |-> MAP_WIDTH \div 2, y |-> MAP_HEIGHT \div 2])

\* the loops' continue / push
Pushed(list, o) == IF centerDist(o) < safeZoneRadius THEN list ELSE Append(list, o)

\* one iteration of the wall loop
GenWall(rh, rl, rx, ry) ==
  /\ genWalls < MaxWalls
  /\ genWalls' = genWalls + 1
  /\ genObstacles' = Pushed(genObstacles, Wall(rh, rl, rx, ry))
  /\ UNCHANGED genDebris
  /\ UNCHANGED <<hostVars, clientVars, rcVars, fsVars, roamVars, wsVars>>

\* one iteration of the debris loop
GenDebris(rs, rx, ry) ==
  /\ genWalls = MaxWalls
  /\ genDebris < MaxDebris
  /\ genDebris' = genDebris + 1
  /\ genObstacles' = Pushed(genObstacles, Debris(rs, rx, ry))
  /\ UNCHANGED genWalls
  /\ UNCHANGED <<hostVars, clientVars, rcVars, fsVars, roamVars, wsVars>>

NextObstacles ==
  \/ \E rh \in Randoms, rl \in Randoms, rx \in Randoms, ry \in Randoms :
        GenWall(rh, rl, rx, ry)
  \/ \E rs \in Randoms, rx \in Randoms, ry \in Randoms : GenDebris(rs, rx, ry)

SpecObstacles == Init /\ [][NextObstacles]_vars

\* -------------------------------------------------- findValidSpawn alone
\* the number of attempts the loop of findValidSpawn stops at
SpawnAttempts == 100
\* obstaclesRef during the call: a wall generateObstacles can return
SpawnObstacles == <<[x |-> 14840, y |-> 12300, width |-> 3800, height |-> 400]>>

\* the test of the inner loop: (x, y) is inside obs padded by 50 map units
InPadded(x, y, obs) ==
  /\ x > obs.x - 500
  /\ x < obs.x + obs.width + 500
  /\ y > obs.y - 500
  /\ y < obs.y + obs.height + 500

\* valid after the inner loop has run for the point (x, y)
SpawnValid(x, y, obsList) == \A k \in 1..Len(obsList) : ~InPadded(x, y, obsList[k])

\* faulty variant: the loop goes on after a point has qualified
SpawnLooping_AllAttempts(valid, attempts) == attempts < SpawnAttempts

\* the condition of the while loop
SpawnLooping(valid, attempts) == ~valid /\ attempts < SpawnAttempts

\* one iteration of the while loop, for two outcomes of Math.random().
\* fsPassed records that the point this iteration replaces had qualified.
SpawnSample(rx, ry) ==
  /\ fsResult = <<>>
  /\ SpawnLooping(fsValid, fsAttempts)
  /\ fsX' = Scaled(rx, MAP_WIDTH - 2000) + 1000
  /\ fsY' = Scaled(ry, MAP_HEIGHT - 2000) + 1000
  /\ fsValid' = SpawnValid(fsX', fsY', SpawnObstacles)
  /\ fsAttempts' = fsAttempts + 1
  /\ fsPassed' = (fsPassed \/ (fsAttempts > 0 /\ SpawnValid(fsX, fsY, SpawnObstacles)))
  /\ UNCHANGED fsResult
  /\ UNCHANGED <<hostVars, clientVars, rcVars, genVars, roamVars, wsVars>>

\* return { x, y }
SpawnReturn ==
  /\ fsResult = <<>>
  /\ ~SpawnLooping(fsValid, fsAttempts)
  /\ fsResult' = <<fsX, fsY>>
  /\ UNCHANGED <<fsX, fsY, fsValid, fsAttempts, fsPassed>>
  /\ UNCHANGED <<hostVars, clientVars, rcVars, genVars, roamVars, wsVars>>

NextSpawn ==
  \/ \E rx \in Randoms, ry \in Randoms : SpawnSample(rx, ry)
  \/ SpawnReturn

SpecSpawn == Init /\ [][NextSpawn]_vars

\* ------------------------------------------ updateBot: the roam branch
\* the number of tries the sampling loop of the roam branch stops at
RoamTries == 10
\* positions of the bot followed (tenths): the centre of the map and a corner
RoamPositions == {<<12500, 12500>>, <<3000, 3000>>}
\* bot.target at the call: undefined (<<>>), or a point 30, 60 or 750 map
\* units to the right of the bot
RoamOffsets == {300, 600, 7500}

\* the point { x, y } of a pair
Pt(xy) == [x |-> xy[1], y |-> xy[2]]

\* (cos, sin) of Math.atan2(to.y - from.y, to.x - from.x), in thousandths;
\* atan2(0, 0) is 0
Heading(from, to) ==
  LET dx == to[1] - from[1]
      dy == to[2] - from[2]
      d == getDistance(Pt(from), Pt(to))
  IN IF d = 0 THEN <<1000, 0>> ELSE <<Div(dx * 1000, d), Div(dy * 1000, d)>>

\* !bot.target || getDistance(bot, bot.target) < 60
NeedsTarget(b) ==
  b.target = <<>> \/ DistSq(b, Pt(b.target)) < 600 * 600

InitRoaming ==
  /\ InitHost /\ InitClient
  /\ InitRc /\ InitGen /\ InitFs /\ InitWs
  /\ \E pos \in RoamPositions :
       \E t \in {<<>>} \cup {<<pos[1] + o, pos[2]>> : o \in RoamOffsets} :
          /\ roamBot = [x |-> pos[1], y |-> pos[2], target |-> t]
          /\ roamHeld = t
  /\ roamTries = 0
  /\ roamValid = FALSE
  /\ roamStage = "start"
  /\ roamIntent = <<0, 0>>

\* the test that opens the roam branch
RoamCheck ==
  /\ roamStage = "start"
  /\ roamStage' = IF NeedsTarget(roamBot) THEN "sampling" ELSE "aim"
  /\ UNCHANGED <<roamBot, roamHeld, roamTries, roamValid, roamIntent>>
  /\ UNCHANGED <<hostVars, clientVars, rcVars, genVars, fsVars, wsVars>>

\* one iteration of the sampling loop, for two outcomes of Math.random()
RoamSample(rx, ry) ==
  /\ roamStage = "sampling"
  /\ ~roamValid /\ roamTries < RoamTries
  /\ LET tx == Scaled(rx, MAP_WIDTH - 1000) + 500
         ty == Scaled(ry, MAP_HEIGHT - 1000) + 500
         far == DistSq(roamBot, [x |-> tx, y |-> ty]) > 4000 * 4000
     IN /\ roamBot' = IF far THEN [roamBot EXCEPT !.target = <<tx, ty>>] ELSE roamBot
        /\ roamValid' = far
  /\ roamTries' = roamTries + 1
  /\ UNCHANGED <<roamHeld, roamStage, roamIntent>>
  /\ UNCHANGED <<hostVars, clientVars, rcVars, genVars, fsVars, wsVars>>

\* the lines after the loop: bot.target!.y raises a TypeError when bot.target is
\* undefined
RoamAim ==
  /\ \/ roamStage = "aim"
     \/ roamStage = "sampling" /\ ~(~roamValid /\ roamTries < RoamTries)
  /\ IF roamBot.target = <<>>
     THEN roamStage' = "threw" /\ UNCHANGED roamIntent
     ELSE /\ roamStage' = "done"
          /\ roamIntent' = Heading(<<roamBot.x, roamBot.y>>, roamBot.target)
  /\ UNCHANGED <<roamBot, roamHeld, roamTries, roamValid>>
  /\ UNCHANGED <<hostVars, clientVars, rcVars, genVars, fsVars, wsVars>>

NextRoam ==
  \/ RoamCheck
  \/ \E rx \in Randoms, ry \in Randoms : RoamSample(rx, ry)
  \/ RoamAim

SpecRoam == InitRoaming /\ [][NextRoam]_vars

\* ----------------------------------------- updateBot: the wall sliding
\* positions of the bot followed (tenths): 30 map units to the left of
\* SlideWall, 30 above it, off its lower right corner and at its centre
SlidePositions == {<<10000, 10000>>, <<10500, 8700>>, <<10950, 12250>>, <<10500, 10500>>}
SlideWall == [x |-> 10300, y |-> 9000, width |-> 400, height |-> 3000]
\* a wall the broad phase skips for every position above
FarWall == [x |-> 20000, y |-> 9000, width |-> 400, height |-> 3000]
SlideObstacleLists == {<<>>, <<SlideWall>>, <<FarWall, SlideWall>>}
\* (targetX, targetY) after "Normalize", in thousandths: unit vectors, and the
\* vector that was too short to be normalized
SlideDesired ==
  {<<1000, 0>>, <<-1000, 0>>, <<0, 1000>>, <<0, -1000>>,
   <<600, 800>>, <<-600, 800>>, <<600, -800>>, <<-600, -800>>,
   <<800, 600>>, <<-800, -600>>, <<707, 707>>, <<-707, -707>>, <<0, 0>>}

\* getLineRectIntersection(p1, p2, obs, padding) is not null; the midpoint is
\* compared doubled
getLineRectIntersection(p1, p2, obs, padding) ==
  LET obsLeft == obs.x - padding
      obsRight == obs.x + obs.width + padding
      obsTop == obs.y - padding
      obsBottom == obs.y + obs.height + padding
  IN /\ ~ \/ Max(p1.x, p2.x) < obsLeft
          \/ Min(p1.x, p2.x) > obsRight
          \/ Max(p1.y, p2.y) < obsTop
          \/ Min(p1.y, p2.y) > obsBottom
     /\ p1.x + p2.x > 2 * obsLeft
     /\ p1.x + p2.x < 2 * obsRight
     /\ p1.y + p2.y > 2 * obsTop
     /\ p1.y + p2.y < 2 * obsBottom

\* pNext for lookAhead = 60 map units
LookAheadPoint(b, t) == [x |-> b.x + Div(t[1] * 600, 1000), y |-> b.y + Div(t[2] * 600, 1000)]

RECURSIVE WallHitFrom(_, _, _, _)
\* the index of wallHit in the list, 0 for null
WallHitFrom(b, t, obs, i) ==
  IF i > Len(obs) THEN 0
  ELSE IF b.x + 600 < obs[i].x \/ b.x - 600 > obs[i].x + obs[i].width
       THEN WallHitFrom(b, t, obs, i + 1)
  ELSE IF getLineRectIntersection(b, LookAheadPoint(b, t), obs[i], 100) THEN i
  ELSE WallHitFrom(b, t, obs, i + 1)

Sign(a) == IF a > 0 THEN 1 ELSE IF a < 0 THEN -1 ELSE 0

\* (nx, ny); dx, dy, hw and hh are doubled
SurfaceNormal(b, wallHit) ==
  LET dx == 2 * b.x - (2 * wallHit.x + wallHit.width)
      dy == 2 * b.y - (2 * wallHit.y + wallHit.height)
      ox == Abs(dx) - wallHit.width
      oy == Abs(dy) - wallHit.height
  IN IF ox > oy THEN <<Sign(dx), 0>> ELSE <<0, Sign(dy)>>

Dot(t, n) == t[1] * n[1] + t[2] * n[2]

\* faulty variant: the vector is not re-normalized after the push
Slide_NoRenormalize(t, n) ==
  LET dot == Dot(t, n)
  IN IF dot < 0
     THEN <<t[1] - n[1] * dot + n[1] * 500, t[2] - n[2] * dot + n[2] * 500>>
     ELSE t

\* the projection, the push of 0.5 away from the wall and the re-normalization
Slide(t, n) ==
  LET dot == Dot(t, n)
  IN IF dot < 0
     THEN LET px == t[1] - n[1] * dot + n[1] * 500
              py == t[2] - n[2] * dot + n[2] * 500
              slideLen == ISqrt(px * px + py * py)
          IN IF slideLen > 1
             THEN <<Div(px * 1000, slideLen), Div(py * 1000, slideLen)>>
             ELSE <<px, py>>
     ELSE t

\* step 3 of updateBot
WallSlide(b, t, obs) ==
  LET hit == WallHitFrom(b, t, obs, 1)
  IN IF hit = 0 THEN t ELSE Slide(t, SurfaceNormal(b, obs[hit]))

InitSliding ==
  /\ InitHost /\ InitClient
  /\ InitRc /\ InitGen /\ InitFs /\ InitRoam
  /\ \E pos \in SlidePositions : wsBot = Pt(pos)
  /\ wsObstacles \in SlideObstacleLists
  /\ wsDesired \in SlideDesired
  /\ wsTarget = wsDesired
  /\ wsApplied = FALSE

ApplyWallSlide ==
  /\ ~wsApplied
  /\ wsTarget' = WallSlide(wsBot, wsDesired, wsObstacles)
  /\ wsApplied' = TRUE
  /\ UNCHANGED <<wsBot, wsObstacles, wsDesired>>
  /\ UNCHANGED <<hostVars, clientVars, rcVars, genVars, fsVars, roamVars>>

NextSlide == ApplyWallSlide

SpecSlide == InitSliding /\ [][NextSlide]_vars

\* ------------------------------------------------------ malformed packets
\* shapes of the packets a peer may send that are no JOIN {nickname} and no
\* INPUT {dx, dy}: a type the handler does not know, a JOIN without payload, a
\* JOIN whose payload has no nickname, an INPUT without payload.  (An INPUT
\* whose payload lacks dx or dy makes the next tick compute NaN positions; NaN
\* is outside the fixed-point numbers used here and that shape is not explored.)
MalformedKinds == {"UNKNOWN_TYPE", "JOIN_NO_PAYLOAD", "JOIN_NO_NICKNAME", "INPUT_NO_PAYLOAD"}

\* conn.on('data') on the host with a packet of one of these shapes; a
\* malformed JOIN is explored in the place of the connection's JOIN
RecvMalformed(c, kind) ==
  /\ IF kind \in {"JOIN_NO_PAYLOAD", "JOIN_NO_NICKNAME"} THEN conn[c] = "open" ELSE IsOpen(c)
  /\ malformed' = TRUE
  /\ CASE kind = "UNKNOWN_TYPE" ->
            \* no branch of the handler matches
            /\ threw' = FALSE
            /\ sent' = NoSends
            /\ UNCHANGED <<players, gameState, count, timerOn, conn, clientInputs,
                           received>>
       [] kind = "JOIN_NO_PAYLOAD" ->
            \* payload.nickname is read from undefined: TypeError before
            \* createPlayer is called
            /\ threw' = TRUE
            /\ sent' = NoSends
            /\ UNCHANGED <<players, gameState, count, timerOn, conn, clientInputs,
                           received>>
       [] kind = "JOIN_NO_NICKNAME" ->
            \* payload.nickname is undefined: the handler goes on as for a JOIN
            /\ threw' = FALSE
            /\ conn' = [conn EXCEPT ![c] = "joined"]
            /\ \E spawn \in SpawnPoints :
                 LET ps == Append(players, createPlayer(c, spawn))
                     start == AutoStart(gameState, ps)
                     gs == IF start THEN "COUNTDOWN" ELSE gameState
                 IN /\ players' = ps
                    /\ gameState' = gs
                    /\ count' = IF start THEN COUNTDOWN_TIME ELSE count
                    /\ timerOn' = IF start THEN TRUE ELSE timerOn
                    /\ sent' = [NoSends EXCEPT ![c] = <<WelcomeMsg(ps, gs)>>]
            /\ UNCHANGED <<clientInputs, received>>
       [] kind = "INPUT_NO_PAYLOAD" ->
            \* undefined is stored over the buffered input; updateHost then
            \* finds no input for the connection
            /\ threw' = FALSE
            /\ clientInputs' = [clientInputs EXCEPT ![c] = NoInput]
            /\ received' = [received EXCEPT ![c] = NoInput]
            /\ sent' = NoSends
            /\ UNCHANGED <<players, gameState, count, timerOn, conn>>
  /\ UNCHANGED <<myId, obstacles, gameStartTime, gameOverReason, timeLeft, stats,
                 gameOverSent, now, ticks, infectedAt>>
  /\ UNCHANGED <<clientVars, physVars>>

\* the host with one client that also sends malformed packets
NextMalformed ==
  \/ HostOpen
  \/ \E c \in InputClients : Connect(c)
  \/ \E c \in InputClients : ConnOpen(c)
  \/ \E c \in InputClients : RecvJoin(c)
  \/ \E c \in InputClients, payload \in InputPayloads : RecvInput(c, payload)
  \/ \E c \in InputClients, kind \in MalformedKinds : RecvMalformed(c, kind)
  \/ \E c \in InputClients : Close(c)
  \/ CountdownFire
  \/ \E localInput \in LocalInputs : Tick(localInput)

SpecMalformed == Init /\ [][NextMalformed]_vars

\* ------------------------------------------------------------------ client
\* value of an optional field that is not set (targetX?, targetY?)
Undefined == -1
Phases == {"LOBBY", "COUNTDOWN", "PLAYING", "GAME_OVER"}
Roles == {"SURVIVOR", "ZOMBIE"}
\* the nickname prop of the client
ClientNickname == "ann"
\* direction the client's keyboard asks for at a frame (thousandths)
ClientInputs == {<<0, 1000>>}

\* a Player as a packet of the host carries it: the host never sets the
\* interpolation targets
ServerPlayer(id, nickname, pos, role) ==
  [id |-> id, nickname |-> nickname, x |-> pos[1], y |-> pos[2], role |-> role,
   targetX |-> Undefined, targetY |-> Undefined]
\* positions reported for the host's Player (tenths)
ServerPositions == {<<10000, 10000>>, <<10250, 10045>>}
HostPlayers ==
  {ServerPlayer(HostId, "host", pos, role) : pos \in ServerPositions, role \in Roles}
ClientPlayers ==
  {ServerPlayer("c1", nickname, <<10000, 10000>>, role) :
     nickname \in {ClientNickname, "bob"}, role \in Roles}
\* player lists of the packets explored: the host's Player alone, or followed
\* by the client's
ServerLists ==
  {<<h>> : h \in HostPlayers} \cup {<<h, c>> : h \in HostPlayers, c \in ClientPlayers}
\* obstacle lists of the WELCOME packets explored
WelcomeObstacles ==
  {SessionObstacles, <<BorderWall>>}
StatePackets_In ==
  {[type |-> "STATE", players |-> ps, timeLeft |-> GAME_DURATION, gameState |-> gs,
    obstacles |-> <<>>] : ps \in ServerLists, gs \in Phases}
WelcomePackets_In ==
  {[type |-> "WELCOME", players |-> <<h, c>>, obstacles |-> obs, gameState |-> gs,
    timeLeft |-> GAME_DURATION] :
     h \in HostPlayers, c \in ClientPlayers, obs \in WelcomeObstacles, gs \in Phases}
Reasons == {"INFECTED", "TIME_UP"}

\* faulty variant: the naive approach, every Player is replaced by the reported one
Reconcile_Replace(local, serverPlayers) ==
  [k \in 1..Len(serverPlayers) |->
     [serverPlayers[k] EXCEPT !.targetX = serverPlayers[k].x,
                              !.targetY = serverPlayers[k].y]]

\* the serverPlayers.map of the STATE handler; currentMap holds for an id the
\* last local Player with that id
Reconcile(local, serverPlayers) ==
  [k \in 1..Len(serverPlayers) |->
     LET sp == serverPlayers[k]
         found == {j \in 1..Len(local) : local[j].id = sp.id}
     IN IF found # {}
        THEN [local[CHOOSE j \in found : \A j2 \in found : j2 <= j] EXCEPT
                !.targetX = sp.x, !.targetY = sp.y,
                !.role = sp.role, !.nickname = sp.nickname]
        ELSE [sp EXCEPT !.targetX = sp.x, !.targetY = sp.y]]

\* conn.on('open') on the client: the JOIN is sent
ClientOpen ==
  /\ clConn = "none"
  /\ clConn' = "open"
  /\ clSent' = <<[type |-> "JOIN", nickname |-> ClientNickname]>>
  /\ clRecv' = <<>>
  /\ UNCHANGED <<clPlayers, clObstacles, clGameState, clTimeLeft, clStats, clReason,
                 clFrames>>
  /\ UNCHANGED <<hostVars, physVars>>

\* faulty variant: the WELCOME is merged into the local Players as a STATE is
ClientWelcome_Merge(msg) ==
  /\ clConn = "open"
  /\ clObstacles' = msg.obstacles
  /\ clPlayers' = Reconcile(clPlayers, msg.players)
  /\ clGameState' = msg.gameState
  /\ clRecv' = <<msg>>
  /\ clSent' = <<>>
  /\ UNCHANGED <<clConn, clTimeLeft, clStats, clReason, clFrames>>
  /\ UNCHANGED <<hostVars, physVars>>

\* conn.on('data') on the client with a WELCOME packet
ClientWelcome(msg) ==
  /\ clConn = "open"
  /\ clObstacles' = msg.obstacles
  /\ clPlayers' = msg.players
  /\ clGameState' = msg.gameState
  /\ clRecv' = <<msg>>
  /\ clSent' = <<>>
  /\ UNCHANGED <<clConn, clTimeLeft, clStats, clReason, clFrames>>
  /\ UNCHANGED <<hostVars, physVars>>

\* conn.on('data') on the client with a STATE packet
ClientState(msg) ==
  /\ clConn = "open"
  /\ clGameState' = msg.gameState
  /\ clTimeLeft' = msg.timeLeft
  /\ LET merged == Reconcile(clPlayers, msg.players)
     IN /\ clPlayers' = merged
        /\ clStats' = [survivors |-> Cardinality(Survivors(merged)),
                       zombies |-> Len(merged) - Cardinality(Survivors(merged))]
  /\ clRecv' = <<msg>>
  /\ clSent' = <<>>
  /\ UNCHANGED <<clConn, clObstacles, clReason, clFrames>>
  /\ UNCHANGED <<hostVars, physVars>>

\* conn.on('data') on the client with a GAME_OVER packet
ClientGameOver(reason) ==
  /\ clConn = "open"
  /\ clGameState' = "GAME_OVER"
  /\ clReason' = reason
  /\ clRecv' = <<GameOverMsg(reason)>>
  /\ clSent' = <<>>
  /\ UNCHANGED <<clConn, clPlayers, clObstacles, clTimeLeft, clStats, clFrames>>
  /\ UNCHANGED <<hostVars, physVars>>

\* conn.on('close') on the client: onExit leaves the game view
ClientClose ==
  /\ clConn = "open"
  /\ clConn' = "closed"
  /\ clRecv' = <<>>
  /\ clSent' = <<>>
  /\ UNCHANGED <<clPlayers, clObstacles, clGameState, clTimeLeft, clStats, clReason,
                 clFrames>>
  /\ UNCHANGED <<hostVars, physVars>>

\* one iteration of loop on the client
updateClient(input) ==
  /\ clFrames < MaxFrames
  /\ clFrames' = clFrames + 1
  /\ clSent' = IF clConn = "open"
               THEN <<[type |-> "INPUT", dx |-> input[1], dy |-> input[2]]>>
               ELSE <<>>
  /\ clPlayers' =
       [k \in 1..Len(clPlayers) |->
          IF clPlayers[k].targetX # Undefined /\ clPlayers[k].targetY # Undefined
          THEN [clPlayers[k] EXCEPT !.x = lerp(@, clPlayers[k].targetX, 3),
                                    !.y = lerp(@, clPlayers[k].targetY, 3)]
          ELSE clPlayers[k]]
  /\ clRecv' = <<>>
  /\ UNCHANGED <<clConn, clObstacles, clGameState, clTimeLeft, clStats, clReason>>
  /\ UNCHANGED <<hostVars, physVars>>

NextClient ==
  \/ ClientOpen
  \/ \E msg \in WelcomePackets_In : ClientWelcome(msg)
  \/ \E msg \in StatePackets_In : ClientState(msg)
  \/ \E reason \in Reasons : ClientGameOver(reason)
  \/ ClientClose
  \/ \E input \in ClientInputs : updateClient(input)

SpecClient == Init /\ [][NextClient]_vars

\* ------------------------------------------- host and client together
\* the peer whose GameCanvas is followed as client; the other peer of Clients
\* is seen from the host only
SessionClient == "c1"

\* the nickname a Player was created with
NicknameOf(id) == IF id = SessionClient THEN ClientNickname ELSE IF id = HostId THEN "host" ELSE "bob"

\* a packet of the host as the client's data handler gets it: the Players
\* carry no interpolation targets
OnWire(msg) ==
  IF msg.type = "GAME_OVER" THEN msg
  ELSE [msg EXCEPT !.players =
          [k \in 1..Len(msg.players) |->
             ServerPlayer(msg.players[k].id, NicknameOf(msg.players[k].id),
                          <<msg.players[k].x, msg.players[k].y>>, msg.players[k].role)]]

\* the packets given to conn.send for the client and not handled by it yet:
\* the channel is ordered, the host takes its next step when it is empty
InFlight == sent[SessionClient]
Quiet == InFlight = <<>> /\ clRecv = <<>>

\* the client's data handler gets the oldest packet in flight
Deliver ==
  /\ InFlight # <<>>
  /\ clRecv = <<>>
  /\ LET msg == OnWire(Head(InFlight))
     IN \/ msg.type = "WELCOME" /\ ClientWelcome(msg)
        \/ msg.type = "STATE" /\ ClientState(msg)
        \/ msg.type = "GAME_OVER" /\ ClientGameOver(msg.reason)

\* the packet just handled leaves the channel
Delivered ==
  /\ InFlight # <<>>
  /\ clRecv # <<>>
  /\ sent' = [sent EXCEPT ![SessionClient] = Tail(@)]
  /\ clRecv' = <<>>
  /\ UNCHANGED <<myId, players, obstacles, gameState, count, timerOn, gameStartTime,
                 gameOverReason, timeLeft, stats, conn, clientInputs, gameOverSent,
                 now, ticks, infectedAt, received, malformed, threw>>
  /\ UNCHANGED <<clConn, clPlayers, clObstacles, clGameState, clTimeLeft, clStats,
                 clReason, clSent, clFrames>>
  /\ UNCHANGED physVars

\* the packets in flight when the client has closed are lost
Dropped ==
  /\ InFlight # <<>>
  /\ clConn = "closed"
  /\ sent' = [sent EXCEPT ![SessionClient] = <<>>]
  /\ UNCHANGED <<myId, players, obstacles, gameState, count, timerOn, gameStartTime,
                 gameOverReason, timeLeft, stats, conn, clientInputs, gameOverSent,
                 now, ticks, infectedAt, received, malformed, threw>>
  /\ UNCHANGED <<clientVars, physVars>>

\* the steps of the host; the JOIN of the followed client arrives after the
\* client's 'open' handler has sent it
HostStep ==
  \/ HostOpen
  \/ \E c \in Clients : Connect(c)
  \/ \E c \in Clients : ConnOpen(c)
  \/ \E c \in Clients : (c = SessionClient => clConn # "none") /\ RecvJoin(c)
  \/ \E c \in Clients : Close(c)
  \/ CountdownFire
  \/ \E d \in ClockSteps : AdvanceClock(d)
  \/ Tick(IdleInput)

\* the steps of the client other than its data handler
ClientStep ==
  \/ conn[SessionClient] \in {"open", "joined"} /\ ClientOpen
  \/ ClientClose

NextSession ==
  \/ Quiet /\ HostStep
  \/ clRecv = <<>> /\ ClientStep
  \/ Deliver
  \/ Delivered
  \/ Dropped

SpecSession == Init /\ [][NextSession]_vars

\* ================================================================ claims
TickStep == ticks' # ticks
\* the wall clock has reached the match duration since the match started
MatchTimeReached == now - gameStartTime >= GAME_DURATION * 1000
\* players i and j are in contact: distance < 0.8 x (sum of the radii)
InContact(p, q) ==
  100 * DistSq(p, q) < 64 * (p.radius + q.radius) * (p.radius + q.radius)
GameOverPackets(msgs) == SelectSeq(msgs, LAMBDA m : m.type = "GAME_OVER")

\* C1: the host phase changes only Lobby->Countdown, Countdown->Playing and
\* Playing->GameOver; no step skips a phase or moves backward.
C1_PhaseSteps ==
  [][gameState' # gameState =>
       <<gameState, gameState'>> \in {<<"LOBBY", "COUNTDOWN">>,
                                      <<"COUNTDOWN", "PLAYING">>,
                                      <<"PLAYING", "GAME_OVER">>}]_vars
\* the match went through all four phases and ended by time
C1_Witness == gameState = "GAME_OVER" /\ gameOverReason = "TIME_UP" /\ count = 0

\* C2: GameOver is terminal: no step taken in GameOver changes the phase.
C2_GameOverTerminal ==
  [][gameState = "GAME_OVER" => gameState' = "GAME_OVER"]_vars
\* a client joined after the match had ended and the host is still in GameOver
C2_Witness ==
  /\ gameState = "GAME_OVER"
  /\ \E c \in Clients : conn[c] = "joined" /\ gameOverSent[c] = <<>>
                         /\ \E i \in 1..Len(players) : players[i].id = c

\* C3: a Player that is a Pursuer is a Pursuer after every step in which it
\* stays in the session.
C3_RoleMonotonic ==
  [][\A i \in 1..Len(players) : \A j \in 1..Len(players') :
       (players[i].id = players'[j].id /\ players[i].role = "ZOMBIE")
         => players'[j].role = "ZOMBIE"]_vars
\* an infected Player and the first Pursuer, after another Player left
C3_Witness ==
  /\ gameState = "PLAYING"
  /\ Len(players) = 2
  /\ Survivors(players) = {}
  /\ \E c \in Clients : conn[c] = "closed"

\* C4: the step Countdown->Playing makes exactly one Player Pursuer, leaves
\* every other Player an Evader with nothing else about the Players changed,
\* and records the clock as the match start, for every player count >= 1.
C4_StartGame ==
  [][(gameState = "COUNTDOWN" /\ gameState' = "PLAYING") =>
       /\ Len(players') >= 1
       /\ Len(players') = Len(players)
       /\ \E z \in 1..Len(players) :
            /\ players[z].role = "SURVIVOR"
            /\ players' = [players EXCEPT ![z].role = "ZOMBIE"]
       /\ Cardinality(Zombies(players')) = 1
       /\ gameStartTime' = now']_vars
\* Playing has just started with three Players at a clock reading other than 0
C4_Witness ==
  /\ gameState = "PLAYING"
  /\ stats.survivors + stats.zombies = 0
  /\ Len(players) = 3
  /\ gameStartTime > 0
  /\ Cardinality(Zombies(players)) = 1
\* Playing has just started with the host as only Player
C4_WitnessSolo ==
  /\ gameState = "PLAYING"
  /\ stats.survivors + stats.zombies = 0
  /\ Len(players) = 1

\* C5 as stated: the force start is available whenever at least one Player is
\* present in Lobby.
C5_ForceStartWithOnePlayer ==
  (myId # "" /\ gameState = "LOBBY" /\ Len(players) >= 1) => ForceStartAvailable
\* C5 amended: Lobby is left only for Countdown and only by the JOIN that brings
\* the player count to 2 or more (the joiner gets its WELCOME in that step); the
\* force start is offered only with more than one Player in Lobby, which is
\* never the case; so with fewer than 2 Players the phase stays Lobby.
C5_LobbyLeft ==
  [][/\ ~ForceStartAvailable /\ ~ForceStartAvailable'
     /\ (gameState = "LOBBY" /\ gameState' # "LOBBY") =>
          /\ gameState' = "COUNTDOWN"
          /\ Len(players) < 2
          /\ Len(players') = Len(players) + 1
          /\ Len(players') >= 2
          /\ \E c \in Clients :
               /\ players'[Len(players')].id = c
               /\ Len(sent'[c]) = 1 /\ sent'[c][1].type = "WELCOME"]_vars
\* the countdown has just been started by the second Player's JOIN
C5_Witness ==
  /\ gameState = "COUNTDOWN"
  /\ count = COUNTDOWN_TIME
  /\ Len(players) = 2
  /\ \E c \in Clients : sent[c] # <<>>

\* C6 as stated, for a session that still has its two Players at tick T+1: the
\* tick after the one that infected the only Evader ends the match with INFECTED.
C6_InfectedByNextTick ==
  [][(/\ infectedAt # 0 /\ infectedAt = ticks /\ TickStep
      /\ Len(players) = 2 /\ Survivors(players) = {})
       => (gameState' = "GAME_OVER" /\ gameOverReason' = "INFECTED")]_vars
\* C6 amended: with two Players of which the only Evader is infected on tick T,
\* the match is not ended by INFECTED while an Evader is left, and if both
\* Players are still the session's Players at tick T+1 that tick ends the match:
\* with INFECTED when elapsed time is below the match duration, with TIME_UP
\* when it is not.
C6_InfectedOrTimeUpByNextTick ==
  [][/\ (/\ infectedAt # 0 /\ infectedAt = ticks /\ TickStep
         /\ Len(players) = 2 /\ Survivors(players) = {})
          => /\ gameState' = "GAME_OVER"
             /\ gameOverReason' = IF MatchTimeReached THEN "TIME_UP" ELSE "INFECTED"
     /\ (TickStep /\ infectedAt' = ticks' /\ infectedAt # infectedAt')
          => (gameState = "PLAYING" /\ gameState' = "PLAYING")
     /\ (gameState = "PLAYING" /\ gameState' = "GAME_OVER"
           /\ gameOverReason' = "INFECTED")
          => Survivors(players) = {}]_vars
\* tick T+1 has ended a two-Player match with INFECTED
C6_Witness ==
  /\ gameState = "GAME_OVER"
  /\ gameOverReason = "INFECTED"
  /\ infectedAt # 0 /\ ticks = infectedAt + 1
  /\ Len(players) = 2

\* C7: a tick taken in Playing ends the match with TIME_UP exactly when the
\* wall clock is at least the match duration past the match start.
C7_TimeUp ==
  [][(TickStep /\ gameState = "PLAYING") =>
       ((gameState' = "GAME_OVER" /\ gameOverReason' = "TIME_UP") <=> MatchTimeReached)]_vars
\* a match that was ticked below the duration (1 ms short) and then ended by time
C7_Witness ==
  /\ gameState = "GAME_OVER"
  /\ gameOverReason = "TIME_UP"
  /\ timeLeft = 0
  /\ stats.zombies >= 1
  /\ now - gameStartTime = GAME_DURATION * 1000

\* C8: the step that ends the match with INFECTED is a tick taken in Playing
\* that leaves no Evader and more than one Player.
C8_AllInfected ==
  [][(gameState # "GAME_OVER" /\ gameState' = "GAME_OVER"
        /\ gameOverReason' = "INFECTED") =>
       /\ TickStep
       /\ gameState = "PLAYING"
       /\ Survivors(players') = {}
       /\ Len(players') > 1]_vars
\* a three-Player match ended with INFECTED
C8_Witness ==
  /\ gameState = "GAME_OVER"
  /\ gameOverReason = "INFECTED"
  /\ Len(players) = 3
\* a solo session was ticked in Playing with no Evader left and goes on
C8_WitnessSolo ==
  /\ gameState = "PLAYING"
  /\ Len(players) = 1
  /\ stats = [survivors |-> 0, zombies |-> 1]

\* C9: in a tick whose infection step runs (phase Playing after the timer check)
\* exactly the Evaders in contact, at their positions after physics, with a
\* Player that was Pursuer before the step become Pursuers; in every other tick
\* no role changes.
C9_Infection ==
  [][TickStep =>
       /\ Len(players') = Len(players)
       /\ \A i \in 1..Len(players) :
            /\ players'[i].id = players[i].id
            /\ players'[i].role =
                 IF /\ gameState = "PLAYING" /\ ~MatchTimeReached
                    /\ players[i].role = "SURVIVOR"
                    /\ \E z \in 1..Len(players) :
                         /\ players[z].role = "ZOMBIE"
                         /\ InContact(players'[i], players'[z])
                 THEN "ZOMBIE"
                 ELSE players[i].role]_vars
\* a tick counted two Evaders, infected the one in contact and left the other
C9_Witness ==
  /\ gameState = "PLAYING"
  /\ stats = [survivors |-> 2, zombies |-> 1]
  /\ Len(players) = 3
  /\ Cardinality(Zombies(players)) = 2

\* C10: the tick that moves Playing->GameOver hands every open connection
\* exactly one GAME_OVER packet, with the reason of the trigger that fired; no
\* other step sends a GAME_OVER packet, so no connection ever gets a second one
\* or one with another reason.
C10_GameOverOnce ==
  [][/\ \A c \in Clients :
          /\ Len(gameOverSent'[c]) <= 1
          /\ gameOverSent'[c] # <<>> =>
               (gameState' = "GAME_OVER" /\ gameOverSent'[c] = <<gameOverReason'>>)
          /\ Len(GameOverPackets(sent'[c]))
               = Len(gameOverSent'[c]) - Len(gameOverSent[c])
     /\ (gameState = "PLAYING" /\ gameState' = "GAME_OVER") =>
          /\ gameOverReason' = IF MatchTimeReached THEN "TIME_UP" ELSE "INFECTED"
          /\ \A c \in Clients :
               IsOpen(c) => GameOverPackets(sent'[c]) = <<GameOverMsg(gameOverReason')>>]_vars
\* the match ended by time in a tick in which the all-infected condition held
\* too, and the open connection got the one GAME_OVER packet
C10_Witness ==
  /\ gameState = "GAME_OVER"
  /\ gameOverReason = "TIME_UP"
  /\ Len(players) = 2
  /\ Survivors(players) = {}
  /\ stats.survivors = 1
  /\ \E c \in Clients : GameOverPackets(sent[c]) = <<GameOverMsg("TIME_UP")>>

StatePackets(msgs) == SelectSeq(msgs, LAMBDA m : m.type = "STATE")
\* the step is the JOIN handler run on connection c
JoinStep(c) == conn[c] = "open" /\ conn'[c] = "joined"
\* the step is the close handler of connection c
CloseStep(c) == conn[c] # "closed" /\ conn'[c] = "closed"

\* C11: the JOIN handler appends exactly one Player, an Evader whose id is the
\* connection's, to the end of the player list and sends that connection, and
\* nobody else, one WELCOME carrying the player list after the append, the
\* session's obstacles and the phase the host has after the handler.
C11_JoinWelcome ==
  [][\A c \in Clients : JoinStep(c) =>
       /\ Len(players') = Len(players) + 1
       /\ SubSeq(players', 1, Len(players)) = players
       /\ players'[Len(players')].id = c
       /\ players'[Len(players')].role = "SURVIVOR"
       /\ Len(sent'[c]) = 1
       /\ sent'[c][1].type = "WELCOME"
       /\ sent'[c][1].players = players'
       /\ sent'[c][1].obstacles = obstacles'
       /\ sent'[c][1].gameState = gameState'
       /\ \A d \in Clients \ {c} : sent'[d] = <<>>]_vars
\* the JOIN that started the countdown was answered with a WELCOME that already
\* says Countdown and lists both Players
C11_Witness ==
  /\ gameState = "COUNTDOWN"
  /\ \E c \in Clients :
       /\ sent[c] # <<>>
       /\ sent[c][1].type = "WELCOME"
       /\ sent[c][1].gameState = "COUNTDOWN"
       /\ Len(sent[c][1].players) = 2
       /\ sent[c][1].players[2].id = c

\* C12 as stated: a connection is handed a STATE packet only after its JOIN was
\* handled, that is after its WELCOME was sent.
C12_NoStateBeforeWelcome ==
  \A c \in Clients : StatePackets(sent[c]) # <<>> => conn[c] = "joined"

\* C14: the close handler of a connection closes that connection, drops its
\* buffered input and removes the Player with its id; the other connections,
\* the other buffered inputs, the other Players with their order, the phase, the
\* countdown, the match start time and the HUD values stay as they were, and
\* nothing is sent.
C14_CloseFrame ==
  [][\A c \in Clients : CloseStep(c) =>
       /\ conn' = [conn EXCEPT ![c] = "closed"]
       /\ clientInputs' = [clientInputs EXCEPT ![c] = NoInput]
       /\ players' = SelectSeq(players, LAMBDA p : p.id # c)
       /\ sent' = NoSends
       /\ UNCHANGED <<myId, obstacles, gameState, count, timerOn, gameStartTime,
                      gameOverReason, timeLeft, stats, gameOverSent>>]_vars
\* a Player left a match in which a tick had counted two Players, and the
\* match goes on with the one Player left
C14_Witness ==
  /\ gameState = "PLAYING"
  /\ stats.survivors + stats.zombies = 2
  /\ Len(players) = 1
  /\ \E c \in Clients : conn[c] = "closed"

C16_StateTimeLeft ==
  [][TickStep =>
       \A c \in Clients : \A k \in 1..Len(sent'[c]) :
         sent'[c][k].type = "STATE" => sent'[c][k].timeLeft = timeLeft']_vars

\* C13: the host buffers for each connection nothing or exactly the payload of
\* the last INPUT packet that arrived on it since it opened (a newer packet
\* replaces the older one, a close empties the buffer); a tick outside GameOver
\* moves every remote Player by that payload, or by (0,0) when nothing is
\* buffered, and leaves the buffer as it is for the next tick.
C13_LatestInput ==
  [][/\ \A c \in Clients :
          /\ clientInputs'[c] \in {NoInput} \cup InputPayloads2
          /\ clientInputs'[c] = received'[c]
     /\ TickStep => clientInputs' = clientInputs
     /\ (TickStep /\ gameState # "GAME_OVER") =>
          \A i \in 1..Len(players) :
            players[i].id \in Clients =>
              LET last == received[players[i].id]
                  q == MovePlayer(players[i], IF last = NoInput THEN <<0, 0>> ELSE last,
                                  obstacles)
              IN /\ players'[i].dx = q.dx /\ players'[i].dy = q.dy
                 /\ players'[i].x = q.x /\ players'[i].y = q.y]_vars
\* two ticks moved the client's Player by its first INPUT (-1,0) and a third
\* one by the INPUT (0,1) that had replaced it
C13_Witness ==
  /\ received["c1"] = <<0, 1000>>
  /\ \E i \in 1..Len(players) :
       players[i].id = "c1" /\ players[i].dx = -288 /\ players[i].dy = 200

\* the client's data handler has just handled a packet of this type
ClientHandled(type) == clRecv' # <<>> /\ clRecv'[1].type = type

\* C17: after a STATE is applied the client's Players are the reported ones in
\* the reported order; one whose id was present locally keeps its local
\* position and gets the reported position as interpolation target and the
\* reported role and nickname; one whose id was not present has position and
\* interpolation target both at the reported position.
C17_Reconcile ==
  [][ClientHandled("STATE") =>
       LET serverPlayers == clRecv'[1].players
       IN /\ Len(clPlayers') = Len(serverPlayers)
          /\ \A k \in 1..Len(serverPlayers) :
               LET sp == serverPlayers[k]
                   q == clPlayers'[k]
                   local == {j \in 1..Len(clPlayers) : clPlayers[j].id = sp.id}
               IN /\ q.id = sp.id
                  /\ q.targetX = sp.x /\ q.targetY = sp.y
                  /\ q.role = sp.role /\ q.nickname = sp.nickname
                  /\ IF local # {}
                     THEN \E j \in local : q.x = clPlayers[j].x /\ q.y = clPlayers[j].y
                     ELSE q.x = sp.x /\ q.y = sp.y]_vars
\* a STATE moved the target of the host's Player away from its local position
\* and changed its role, and brought in the client's Player at its target
C17_Witness ==
  /\ clRecv # <<>> /\ clRecv[1].type = "STATE"
  /\ clFrames = 0
  /\ Len(clPlayers) = 2
  /\ clPlayers[1].x = 10000 /\ clPlayers[1].targetX = 10250
  /\ clPlayers[1].y = 10000 /\ clPlayers[1].targetY = 10045
  /\ clPlayers[1].role = "ZOMBIE"
  /\ clPlayers[2].x = clPlayers[2].targetX /\ clPlayers[2].y = clPlayers[2].targetY

\* C18: after a WELCOME is handled the client's obstacle list, player list and
\* phase are the packet's; nothing of the earlier local lists is left.
C18_WelcomeReplaces ==
  [][ClientHandled("WELCOME") =>
       /\ clObstacles' = clRecv'[1].obstacles
       /\ clPlayers' = clRecv'[1].players
       /\ clGameState' = clRecv'[1].gameState]_vars
\* a WELCOME arrived at a client that had obstacles, Players with interpolation
\* targets from an earlier STATE and the phase GameOver
C18_Witness ==
  /\ clRecv # <<>> /\ clRecv[1].type = "WELCOME"
  /\ clStats.survivors + clStats.zombies > 0
  /\ clReason = "TIME_UP"
  /\ clGameState = "LOBBY"
  /\ clObstacles = SessionObstacles
  /\ \A k \in 1..Len(clPlayers) : clPlayers[k].targetX = Undefined

\* C19 as stated: the data handler run on a packet of unknown type or with a
\* missing or incomplete payload does not fail and leaves the player list, the
\* input buffers, the phase and the countdown as they were.
C19_MalformedIgnored ==
  [][malformed' =>
       /\ ~threw'
       /\ UNCHANGED <<players, clientInputs, gameState, count, timerOn>>]_vars

\* C20 as stated: when resolveCollision has returned, the Player's center is
\* within [radius, MAP_WIDTH - radius] on x and [radius, MAP_HEIGHT - radius]
\* on y.
C20_WithinBounds ==
  rcApplied =>
    /\ rcPlayer.radius <= rcPlayer.x /\ rcPlayer.x <= MAP_WIDTH - rcPlayer.radius
    /\ rcPlayer.radius <= rcPlayer.y /\ rcPlayer.y <= MAP_HEIGHT - rcPlayer.radius

\* distance^2 from the center of p to the nearest point of the rectangle obs
NearestSq(p, obs) ==
  LET dx == p.x - clamp(p.x, obs.x, obs.x + obs.width)
      dy == p.y - clamp(p.y, obs.y, obs.y + obs.height)
  IN dx * dx + dy * dy

\* C21 as stated: when resolveCollision has returned, the center of the Player
\* is at least radius away from the nearest point of every obstacle (0.2 units
\* are allowed for the rounding of the fixed-point numbers).
C21_NoOverlap ==
  rcApplied =>
    \A k \in 1..Len(rcObstacles) :
      NearestSq(rcPlayer, rcObstacles[k]) >= (rcPlayer.radius - 2) * (rcPlayer.radius - 2)

C24_CountsAfterInfection ==
  [][(TickStep /\ gameState = "PLAYING") =>
       /\ stats'.survivors =
            Cardinality({i \in 1..Len(players') : players'[i].role = "SURVIVOR"})
       /\ stats'.zombies =
            Cardinality({i \in 1..Len(players') : players'[i].role = "ZOMBIE"})]_vars
\* C24 amended: a Playing tick whose infection step runs (elapsed time below
\* the match duration) publishes the numbers of Evaders and Pursuers the Player
\* set had before that tick's infection step, so a Player infected in the tick
\* is still counted as Evader; the tick that ends the match by time publishes
\* no counts.
C24_CountsBeforeInfection ==
  [][(TickStep /\ gameState = "PLAYING") =>
       IF MatchTimeReached
       THEN stats' = stats
       ELSE /\ stats'.survivors =
                 Cardinality({i \in 1..Len(players) : players[i].role = "SURVIVOR"})
            /\ stats'.zombies =
                 Cardinality({i \in 1..Len(players) : players[i].role = "ZOMBIE"})]_vars
\* a tick of a running match infected the only Evader and published one Evader
\* and one Pursuer
C24_Witness ==
  /\ gameState = "PLAYING"
  /\ Len(players) = 2
  /\ stats = [survivors |-> 1, zombies |-> 1]
  /\ \A i \in 1..Len(players) : players[i].role = "ZOMBIE"

\* C28: in Lobby and Countdown every Player is an Evader; a role changes only
\* in the step Countdown->Playing and in a tick taken in Playing; the Player a
\* JOIN adds is an Evader in every phase.
C28_EvadersBeforePlaying ==
  [][/\ gameState' \in {"LOBBY", "COUNTDOWN"} =>
          \A i \in 1..Len(players') : players'[i].role = "SURVIVOR"
     /\ \A i \in 1..Len(players) : \A j \in 1..Len(players') :
          (players[i].id = players'[j].id /\ players[i].role # players'[j].role) =>
             \/ gameState = "COUNTDOWN" /\ gameState' = "PLAYING"
             \/ TickStep /\ gameState = "PLAYING"
     /\ \A c \in Clients : JoinStep(c) => players'[Len(players')].role = "SURVIVOR"]_vars
\* a Player joined a running match that has a Pursuer, as an Evader
C28_Witness ==
  /\ gameState = "PLAYING"
  /\ Zombies(players) # {}
  /\ \E c \in Clients :
       /\ sent[c] # <<>> /\ sent[c][1].type = "WELCOME"
       /\ players[Len(players)].id = c
       /\ players[Len(players)].role = "SURVIVOR"

\* C30: the countdown starts at COUNTDOWN_TIME; while the phase is Countdown
\* the timer is on, no step but a firing of the timer changes the count, each
\* firing lowers it by one, and the phase is Playing exactly from the firing
\* that brings it to 0, whatever the number of Players left; a single Player
\* left at that firing is the Pursuer.
C30_CountdownRuns ==
  [][/\ (gameState # "COUNTDOWN" /\ gameState' = "COUNTDOWN") =>
          (count' = COUNTDOWN_TIME /\ timerOn')
     /\ gameState = "COUNTDOWN" =>
          /\ timerOn
          /\ count \in 1..COUNTDOWN_TIME
          /\ count' \in {count, count - 1}
          /\ gameState' = IF count' = 0 THEN "PLAYING" ELSE "COUNTDOWN"
          /\ (gameState' = "PLAYING" /\ Len(players') = 1) =>
               players'[1].role = "ZOMBIE"]_vars
\* the countdown ran out after the client whose JOIN had started it left, and
\* the host is the only Player and the Pursuer
C30_Witness ==
  /\ gameState = "PLAYING"
  /\ count = 0
  /\ ticks = 0
  /\ Len(players) = 1
  /\ players[1].role = "ZOMBIE"
  /\ \E c \in Clients : conn[c] = "closed"

\* C29: with the loop running and the clock advancing, a match in Playing
\* reaches GameOver whatever joins, closes and inputs occur, and the tick that
\* finds the match time reached leaves the match in GameOver.
C29_EventuallyGameOver ==
  /\ (gameState = "PLAYING") ~> (gameState = "GAME_OVER")
  /\ [][(gameState = "PLAYING" /\ MatchTimeReached /\ TickOn(IdleInput))
          => gameState' = "GAME_OVER"]_vars
\* a match ended by time after its Pursuer had left and no Pursuer remained
C29_Witness ==
  /\ gameState = "GAME_OVER"
  /\ gameOverReason = "TIME_UP"
  /\ Len(players) >= 1
  /\ Zombies(players) = {}
  /\ \E c \in Clients : conn[c] = "closed"

\* the obstacle reaches into the circle of radius safeZoneRadius around the
\* centre of the map
OverlapsSafeZone(o) ==
  NearestSq([x |-> MAP_WIDTH \div 2, y |-> MAP_HEIGHT \div 2], o)
    < safeZoneRadius * safeZoneRadius
\* C22: no obstacle generateObstacles puts in its list overlaps the safe zone.
C22_SafeZoneFree ==
  \A k \in 1..Len(genObstacles) : ~OverlapsSafeZone(genObstacles[k])

\* C25: findValidSpawn makes at most 100 attempts and replaces no point that
\* qualified; it returns the point sampled last, which qualifies if valid is
\* set and is the 100th sample, not qualifying, otherwise, and which lies in
\* [100, MAP_WIDTH - 100) x [100, MAP_HEIGHT - 100).
C25_Spawn ==
  /\ fsAttempts <= SpawnAttempts
  /\ ~fsPassed
  /\ fsResult # <<>> =>
       /\ fsAttempts >= 1
       /\ fsResult = <<fsX, fsY>>
       /\ fsValid = SpawnValid(fsResult[1], fsResult[2], SpawnObstacles)
       /\ ~fsValid => fsAttempts = SpawnAttempts
       /\ 1000 <= fsResult[1] /\ fsResult[1] < MAP_WIDTH - 1000
       /\ 1000 <= fsResult[2] /\ fsResult[2] < MAP_HEIGHT - 1000
\* the call returned a point inside a padded obstacle after 100 attempts
C25_Witness ==
  /\ fsResult # <<>>
  /\ fsAttempts = SpawnAttempts
  /\ ~SpawnValid(fsResult[1], fsResult[2], SpawnObstacles)

\* the vector v points from the bot at the point t, up to the rounding of its
\* components
PointsAt(v, b, t) ==
  LET dx == t[1] - b.x
      dy == t[2] - b.y
  IN /\ v[1] * dx + v[2] * dy > 0
     /\ Abs(v[1] * dy - v[2] * dx) <= Abs(dx) + Abs(dy)
\* C26 as stated: the roam branch always completes; a target held at 60 units
\* or more is kept and the intent vector points at it; otherwise the bot is
\* left with a target more than 400 units away.
C26_Roam ==
  roamStage \in {"done", "threw"} =>
    /\ roamStage = "done"
    /\ roamBot.target # <<>>
    /\ IF roamHeld # <<>> /\ DistSq(roamBot, Pt(roamHeld)) >= 600 * 600
       THEN /\ roamBot.target = roamHeld
            /\ PointsAt(roamIntent, roamBot, roamHeld)
       ELSE DistSq(roamBot, Pt(roamBot.target)) > 4000 * 4000

\* the look-ahead of the step reports a wall and the desired vector has a
\* negative dot product with the wall's normal
MovingIntoWall ==
  LET hit == WallHitFrom(wsBot, wsDesired, wsObstacles, 1)
  IN hit # 0 /\ Dot(wsDesired, SurfaceNormal(wsBot, wsObstacles[hit])) < 0
\* C27: after the wall sliding step of a bot moving into a wall the vector has
\* a dot product >= 0 with the normal and magnitude 1 (within 0.5 percent);
\* in every other case the vector is the desired one.
C27_WallSlide ==
  wsApplied =>
    IF MovingIntoWall
    THEN LET n == SurfaceNormal(wsBot,
                    wsObstacles[WallHitFrom(wsBot, wsDesired, wsObstacles, 1)])
             sq == wsTarget[1] * wsTarget[1] + wsTarget[2] * wsTarget[2]
         IN /\ Dot(wsTarget, n) >= 0
            /\ 995 * 995 <= sq /\ sq <= 1005 * 1005
    ELSE wsTarget = wsDesired
\* a bot heading diagonally into the wall has been turned
C27_Witness ==
  /\ wsApplied
  /\ MovingIntoWall
  /\ wsDesired[1] # 0 /\ wsDesired[2] # 0
  /\ wsTarget # wsDesired

\* the keys of connectionsRef: set at the 'connection' event, deleted at 'close'
ConnectionKeys == {c \in Clients : conn[c] \in {"pending", "open", "joined"}}
\* C31: every Player other than the host's own has its id in the connection
\* map, every key of the input buffer is a key of the connection map, and a
\* closed connection has neither a Player nor a buffered input.
C31_Collections ==
  /\ \A i \in 1..Len(players) :
        players[i].id # myId => players[i].id \in ConnectionKeys
  /\ \A c \in Clients : clientInputs[c] # NoInput => c \in ConnectionKeys
  /\ \A c \in Clients :
        conn[c] = "closed" =>
          /\ \A i \in 1..Len(players) : players[i].id # c
          /\ clientInputs[c] = NoInput
\* the only peer that joined (the countdown started on its JOIN) has closed,
\* and the host's Player is alone in the list
C31_Witness ==
  /\ gameState # "LOBBY"
  /\ conn["c1"] = "closed"
  /\ conn["c2"] = "none"
  /\ Len(players) = 1
  /\ players[1].id = myId

\* the place of a phase in the order Lobby, Countdown, Playing, GameOver
PhaseRank(gs) ==
  IF gs = "LOBBY" THEN 0 ELSE IF gs = "COUNTDOWN" THEN 1 ELSE IF gs = "PLAYING" THEN 2 ELSE 3
\* C32: the client's phase never moves backward and is never ahead of the
\* host's, whose phases only move forward; a client in GameOver stays there.
C32_ClientPhase ==
  /\ [](PhaseRank(clGameState) <= PhaseRank(gameState))
  /\ [][/\ PhaseRank(clGameState') >= PhaseRank(clGameState)
        /\ PhaseRank(gameState') >= PhaseRank(gameState)]_vars
\* the client has just handled a STATE of the host while in GameOver, after
\* the host ended the match by time
C32_Witness ==
  /\ clGameState = "GAME_OVER"
  /\ clRecv # <<>>
  /\ clRecv[1].type = "STATE"
  /\ gameOverReason = "TIME_UP"

\* C33 as stated: a client in GameOver holds the reason the host ended the
\* match with.
C33_SameReason == clGameState = "GAME_OVER" => clReason = gameOverReason

====
